---- MODULE Spec2Model ----
(***************************************************************************)
(* The four entry-point scripts of the repository (dmi_app_csv.py,         *)
(* dmi_idp_csv.py, DMI_APPL.py, dmi_hris_csv.py) as one state machine.     *)
(* One run of one script: environment check, construction of the           *)
(* application object, the per-file loops that register permissions,       *)
(* resources, users, groups, memberships and entitlement grants, and the   *)
(* provider lookup and push.  Calls into the oaaclient SDK are recorded by *)
(* what the script asks for (a registration, an attachment, a grant); the  *)
(* checks modelled are the ones the scripts themselves perform.            *)
(***************************************************************************)
EXTENDS Integers, Sequences, FiniteSets, TLC

\* Bound on the total number of CSV rows one run consumes, over all files.
MaxRows == 4

Scripts == {"dmi_app_csv", "dmi_idp_csv", "DMI_APPL", "dmi_hris_csv"}

\* ---------------------------------------------------------------- inputs

PermNames == {"View", "Edit"}
\* members of the SDK enum the scripts name
OAAPermission == {"DataRead", "DataWrite"}
\* permissions.csv: name, permissions (after split(';') and strip())
PermRows ==
    { [name |-> "View", permissions |-> <<"DataRead">>],
      [name |-> "Edit", permissions |-> <<"DataRead", "DataWrite">>],
      [name |-> "Edit", permissions |-> <<"DataRead", "Bogus">>] }

ResNames == {"Branch", "Dept"}
ResTypes == {"branch", "department"}
\* resources.csv: name, resource_type, parent_name ("" for a root)
ResRows ==
    { r \in [name : ResNames, resource_type : ResTypes, parent_name : ResNames \cup {""}] :
        r.parent_name = "" \/ r.resource_type = "department" }

UserKeys == {"alice", "bob"}
GroupNames == {"sales", "managers"}
\* users.csv: name, full_name, identity, groups (after split(';'), <<>> for an
\* empty column), is_active
UserRows ==
    { [name |-> "alice", full_name |-> "Alice A", identity |-> "alice@veza.com",
       groups |-> <<"sales">>, is_active |-> ""],
      [name |-> "bob", full_name |-> "Bob B", identity |-> "",
       groups |-> <<"sales", "managers">>, is_active |-> "False"],
      [name |-> "alice", full_name |-> "Bob B", identity |-> "",
       groups |-> <<>>, is_active |-> "True"] }
\* idp_users.csv: identity, full_name, is_active
IdpUserRows ==
    { [identity |-> "alice@veza.com", full_name |-> "Alice A", is_active |-> ""],
      [identity |-> "bob@veza.com", full_name |-> "Bob B", is_active |-> "False"],
      [identity |-> "", full_name |-> "Bob B", is_active |-> "True"] }
GroupRows == [name : GroupNames]

IdentityTypes == {"local_user", "local_group", "service"}
\* identity_to_permissions.csv: identity, identity_type, permission, resource_name
MappingRows == [identity : {"alice", "sales"}, identity_type : IdentityTypes,
                permission : PermNames, resource_name : ResNames \cup {""}]
\* idp_group_memberships.csv: user_identity, group_name
MembershipRows == [user_identity : {"alice@veza.com", "bob@veza.com"},
                   group_name : GroupNames]

\* the HRIS export: FirstName + LastName, Email, Status, Department
EmployeeRows ==
    { [name |-> "Jim Halpert", Email |-> "jim@dm.com", Status |-> "Active",
       Department |-> "Sales"],
      [name |-> "Pam Beesly", Email |-> "pam@dm.com", Status |-> "Terminated",
       Department |-> ""] }

\* ----------------------------------------------------------------- state

VARIABLES
    script,             \* which entry point runs
    pc,                 \* position in main()
    phase,              \* index of the current loop in Phases(script)
    idx,                \* rows the current loop has processed
    rows,               \* CSV rows consumed so far in the run
    veza_url,           \* VEZA_URL is set
    veza_api_key,       \* VEZA_API_KEY is set
    veza_con,           \* the OAAClient exists
    app_created,        \* CustomApplication / CustomIdPProvider / HRISProvider exists
    custom_permissions, \* name -> access levels
    nodes,              \* resources in creation order: name, type, parent node (0: root)
    resource_map,       \* name -> node
    users_data,         \* the user rows read
    local_users,        \* user name -> [identities, is_active]
    local_groups,       \* registered group names
    memberships,        \* <<user, group>> pairs
    grants,             \* add_permission calls, in call order
    accepted,           \* the mapping rows that reached add_permission
    log,                \* the records processed, in order: [phase, idx]
    calls,              \* calls made on the client, in order
    last_err,           \* what the latest step reported
    error_seen,         \* an error was reported or raised in this run
    outcome             \* "running" | "ok" (exit status 0) | "failed" (non-zero)

vars == <<script, pc, phase, idx, rows, veza_url, veza_api_key, veza_con, app_created,
          custom_permissions, nodes, resource_map, users_data, local_users, local_groups,
          memberships, grants, accepted, log, calls, last_err, error_seen, outcome>>

graph == <<custom_permissions, nodes, resource_map, users_data, local_users,
           local_groups, memberships, grants, accepted>>

NoErr == [kind |-> "none", ident |-> ""]
Err(k, i) == [kind |-> k, ident |-> i]

Put(f, k, v) == [x \in DOMAIN f \cup {k} |-> IF x = k THEN v ELSE f[x]]

\* dict.get(name): the node, or 0 for None
MapGet(m, name) == IF name \in DOMAIN m THEN m[name] ELSE 0

Init ==
    /\ script \in Scripts
    /\ pc = "start"
    /\ phase = 0
    /\ idx = 0
    /\ rows = 0
    /\ veza_url \in BOOLEAN
    /\ veza_api_key \in BOOLEAN
    /\ veza_con = FALSE
    /\ app_created = FALSE
    /\ custom_permissions = <<>>
    /\ nodes = <<>>
    /\ resource_map = <<>>
    /\ users_data = <<>>
    /\ local_users = <<>>
    /\ local_groups = {}
    /\ memberships = {}
    /\ grants = <<>>
    /\ accepted = <<>>
    /\ log = <<>>
    /\ calls = <<>>
    /\ last_err = NoErr
    /\ error_seen = FALSE
    /\ outcome = "running"

\* ------------------------------------------------------- control skeleton

\* The loops in another order: resources are read before permissions.
PhasesResourcesFirst(s) ==
    CASE s \in {"dmi_app_csv", "DMI_APPL"} ->
            <<"resources", "permissions", "users", "groups", "members", "mappings">>
      [] s = "dmi_idp_csv" -> <<"users", "groups", "memberships">>
      [] OTHER -> <<"employees">>

\* The loops of main(), in program order.
Phases(s) ==
    CASE s = "dmi_app_csv" ->
            <<"permissions", "resources", "users", "groups", "members", "mappings">>
      [] s = "DMI_APPL" ->
            <<"permissions", "resources", "users", "groups", "members", "mappings">>
      [] s = "dmi_idp_csv" -> <<"users", "groups", "memberships">>
      [] OTHER -> <<"employees">>

\* Loops that start with read_csv_file(); the others iterate data already in memory.
ReadsFile(s, p) ==
    /\ s \in {"dmi_app_csv", "dmi_idp_csv", "dmi_hris_csv"}
    /\ ~(s = "dmi_app_csv" /\ p = "members")

CurPhase == IF phase \in 1..Len(Phases(script)) THEN Phases(script)[phase] ELSE "none"

\* sys.exit(1), or an exception nothing catches
Abort(k, i) ==
    /\ pc' = "done"
    /\ outcome' = "failed"
    /\ last_err' = Err(k, i)
    /\ error_seen' = TRUE

\* Enter loop number n of the script.
EnterPhase(n) ==
    /\ phase' = n
    /\ idx' = 0
    /\ pc' = IF ReadsFile(script, Phases(script)[n]) THEN "read" ELSE "loop"

Running == outcome = "running"

Logged(p) == Append(log, [phase |-> p, idx |-> idx + 1])

\* --------------------------------------------------- start of the CSV/APPL scripts

\* os.getenv twice; `if None in (veza_url, veza_api_key): sys.exit(1)`
EnvMissing == ~veza_url \/ ~veza_api_key

CheckEnv ==
    /\ Running /\ pc = "start" /\ script # "dmi_hris_csv"
    /\ IF EnvMissing
       THEN /\ Abort("MissingEnv", "")
            /\ UNCHANGED <<script, phase, idx, rows, veza_url, veza_api_key, veza_con,
                           app_created, graph, log, calls>>
       ELSE /\ pc' = "construct"
            /\ UNCHANGED <<script, phase, idx, rows, veza_url, veza_api_key, veza_con,
                           app_created, graph, log, calls, last_err, error_seen, outcome>>

\* OAAClient(...), then CustomApplication(...) / CustomIdPProvider(...)
Construct ==
    /\ Running /\ pc = "construct"
    /\ veza_con' = TRUE
    /\ app_created' = TRUE
    /\ EnterPhase(1)
    /\ last_err' = NoErr
    /\ UNCHANGED <<script, rows, veza_url, veza_api_key, graph, log, calls,
                   error_seen, outcome>>

\* read_csv_file: the rows, or sys.exit(1) when the file cannot be read
ReadCsv ==
    /\ Running /\ pc = "read"
    /\ \/ /\ pc' = "loop"
          /\ last_err' = NoErr
          /\ UNCHANGED <<error_seen, outcome>>
       \/ Abort("CsvUnreadable", CurPhase)
    /\ UNCHANGED <<script, phase, idx, rows, veza_url, veza_api_key, veza_con,
                   app_created, graph, log, calls>>

\* ------------------------------------------------------------- the loops

\* What the hard-coded statements of DMI_APPL.py register, in statement order.
ApplPermissions ==
    << [name |-> "ViewDept", permissions |-> <<"DataRead">>],
       [name |-> "EditDept", permissions |-> <<"DataRead", "DataWrite">>],
       [name |-> "ApproveTime", permissions |-> <<"DataRead", "DataWrite">>],
       [name |-> "AccessBranch", permissions |-> <<"DataRead">>],
       [name |-> "OrderPaper", permissions |-> <<"DataRead">>],
       [name |-> "ManagePricing", permissions |-> <<"DataRead", "DataWrite">>],
       [name |-> "ManageWarehouse", permissions |-> <<"DataRead", "DataWrite">>] >>

\* parent: the node held by the Python variable the statement calls
\* add_sub_resource on (0: custom_app.add_resource)
ApplResources ==
    << [name |-> "Scranton Branch", resource_type |-> "branch", parent |-> 0],
       [name |-> "Management", resource_type |-> "child", parent |-> 1],
       [name |-> "Warehouse", resource_type |-> "child", parent |-> 1],
       [name |-> "Sales", resource_type |-> "child", parent |-> 1],
       [name |-> "Bond Paper", resource_type |-> "paper_type", parent |-> 0],
       [name |-> "Company Letterhead", resource_type |-> "paper_type", parent |-> 0] >>

ApplUsers ==
    << [name |-> "michael", identity |-> "zwilson+Michael.Scott@veza.com"],
       [name |-> "jim", identity |-> ""],
       [name |-> "pam", identity |-> ""],
       [name |-> "dwight", identity |-> ""] >>

ApplGroups == << [name |-> "managers"], [name |-> "sales"] >>

ApplMembers ==
    << [user |-> "michael", group |-> "managers"],
       [user |-> "jim", group |-> "sales"],
       [user |-> "dwight", group |-> "sales"] >>

ApplGrant(u, p, rs) == [user |-> u, permission |-> p, resources |-> rs]

ApplGrants ==
    << ApplGrant("michael", "ViewDept", <<2>>),
       ApplGrant("michael", "EditDept", <<2>>),
       ApplGrant("michael", "ApproveTime", <<2>>),
       ApplGrant("michael", "AccessBranch", <<1>>),
       ApplGrant("michael", "OrderPaper", <<5, 6>>),
       ApplGrant("michael", "ManagePricing", <<1>>),
       ApplGrant("michael", "ManageWarehouse", <<3>>),
       ApplGrant("jim", "ViewDept", <<4>>),
       ApplGrant("jim", "AccessBranch", <<1>>),
       ApplGrant("jim", "OrderPaper", <<5, 6>>),
       ApplGrant("pam", "ViewDept", <<2>>),
       ApplGrant("pam", "AccessBranch", <<1>>),
       ApplGrant("dwight", "ViewDept", <<4>>),
       ApplGrant("dwight", "AccessBranch", <<1>>),
       ApplGrant("dwight", "ManageWarehouse", <<3>>) >>

ApplData(p) ==
    CASE p = "permissions" -> ApplPermissions
      [] p = "resources" -> ApplResources
      [] p = "users" -> ApplUsers
      [] p = "groups" -> ApplGroups
      [] p = "members" -> ApplMembers
      [] OTHER -> ApplGrants

InLoop(s, p) == Running /\ pc = "loop" /\ script = s /\ CurPhase = p

\* The rows a CSV loop may see next: any row of the file's shape, while the
\* run's input budget lasts.
CsvInput(S) == IF rows < MaxRows THEN S ELSE {}

\* The statement DMI_APPL.py executes next in the current block.
ApplInput == IF idx < Len(ApplData(CurPhase)) THEN {ApplData(CurPhase)[idx + 1]} ELSE {}

\* One more record of the current loop is done.
Advance(isCsv) ==
    /\ idx' = idx + 1
    /\ rows' = IF isCsv THEN rows + 1 ELSE rows
    /\ log' = Logged(CurPhase)

\* [getattr(OAAPermission, p.strip()) for p in ...]: AttributeError on a token
\* the enum does not have
LevelsOk(tokens) == \A i \in 1..Len(tokens) : tokens[i] \in OAAPermission

\* custom_app.add_custom_permission(perm_name, perm_types)
AddCustomPermission(perms, name, tokens) == Put(perms, name, tokens)

PermissionStep(row, isCsv) ==
    /\ IF LevelsOk(row.permissions)
       THEN /\ custom_permissions' = AddCustomPermission(custom_permissions, row.name,
                                                         row.permissions)
            /\ last_err' = NoErr
            /\ UNCHANGED <<pc, error_seen, outcome>>
       ELSE /\ Abort("InvalidAccessLevel", row.name)
            /\ UNCHANGED custom_permissions
    /\ Advance(isCsv)
    /\ UNCHANGED <<script, phase, veza_url, veza_api_key, veza_con, app_created, nodes,
                   resource_map, users_data, local_users, local_groups, memberships,
                   grants, accepted, calls>>

ProcessPermission ==
    /\ InLoop("dmi_app_csv", "permissions")
    /\ \E row \in CsvInput(PermRows) : PermissionStep(row, TRUE)

ApplPermission ==
    /\ InLoop("DMI_APPL", "permissions")
    /\ \E row \in ApplInput : PermissionStep(row, FALSE)

\* A row that reuses the name of its parent is linked to itself, as if the
\* resource map had been updated before the parent was looked up.
NewNodeSelfNamed(name, type, parent) ==
    [name |-> name, resource_type |-> type,
     parent |-> IF parent # 0 /\ nodes[parent].name = name THEN Len(nodes) + 1 ELSE parent]

\* A sub-resource that is never attached under its parent: its parent link
\* points at itself.
NewNodeDetached(name, type, parent) ==
    [name |-> name, resource_type |-> type,
     parent |-> IF parent = 0 THEN 0 ELSE Len(nodes) + 1]

\* add_resource / add_sub_resource: a new node, attached under `parent`
NewNode(name, type, parent) == [name |-> name, resource_type |-> type, parent |-> parent]

\* A lookup that never misses: an unknown parent silently becomes the first node.
ParentLookupDefaulting(m, parent_name) == IF parent_name \in DOMAIN m THEN m[parent_name] ELSE 1

\* resource_map.get(parent_name)
ParentLookup(m, parent_name) == MapGet(m, parent_name)

\* Lines 90-104 of dmi_app_csv.py for one row.
ResourceStep(row) ==
    /\ IF row.parent_name # "" /\ ParentLookup(resource_map, row.parent_name) = 0
       THEN /\ Abort("UnresolvedParent", row.parent_name)
            /\ UNCHANGED <<nodes, resource_map>>
       ELSE /\ nodes' = Append(nodes,
                    NewNode(row.name, row.resource_type,
                            IF row.parent_name # ""
                            THEN ParentLookup(resource_map, row.parent_name) ELSE 0))
            /\ resource_map' = Put(resource_map, row.name, Len(nodes) + 1)
            /\ last_err' = NoErr
            /\ UNCHANGED <<pc, error_seen, outcome>>
    /\ Advance(TRUE)
    /\ UNCHANGED <<script, phase, veza_url, veza_api_key, veza_con, app_created,
                   custom_permissions, users_data, local_users, local_groups,
                   memberships, grants, accepted, calls>>

ProcessResource ==
    /\ InLoop("dmi_app_csv", "resources")
    /\ \E row \in CsvInput(ResRows) : ResourceStep(row)

\* DMI_APPL.py lines 66-74: the parent is a Python variable, no lookup
ApplResource ==
    /\ InLoop("DMI_APPL", "resources")
    /\ \E row \in ApplInput :
          /\ nodes' = Append(nodes, NewNode(row.name, row.resource_type, row.parent))
          /\ last_err' = NoErr
          /\ Advance(FALSE)
          /\ UNCHANGED <<script, pc, phase, veza_url, veza_api_key, veza_con, app_created,
                         custom_permissions, resource_map, users_data, local_users,
                         local_groups, memberships, grants, accepted, calls, error_seen,
                         outcome>>

\* ------------------------------------------------------- users and groups

\* user['is_active'].lower() == 'true'
LowerIsTrue(token) == token \in {"true", "True", "TRUE"}

\* add_local_user(name), add_identity, set_property, is_active
NewUser(row) ==
    [identities |-> IF row.identity # "" THEN {row.identity} ELSE {},
     properties |-> IF row.full_name # "" THEN {<<"full_name", row.full_name>>} ELSE {},
     is_active  |-> IF row.is_active # "" THEN LowerIsTrue(row.is_active) ELSE TRUE]

\* Lines 118-133: set_property raised and the write to the properties dict
\* raised too; both are caught and printed as warnings, and the user stays
\* registered without the attributes.
WithoutProperties(u) == [u EXCEPT !.properties = {}]

\* The user as the loop body leaves it: complete, or short of its custom
\* attributes when there were some to set and setting them failed.
UserOutcomes(row) ==
    {NewUser(row)} \cup (IF row.full_name # "" THEN {WithoutProperties(NewUser(row))} ELSE {})

\* Lines 108-135 of dmi_app_csv.py for one row.
UserStep(row) ==
    /\ \E u \in UserOutcomes(row) :
          /\ local_users' = Put(local_users, row.full_name, u)
          /\ last_err' = IF u = NewUser(row) THEN NoErr
                         ELSE Err("PropertyWarning", row.full_name)
    /\ users_data' = Append(users_data, row)
    /\ Advance(TRUE)
    /\ UNCHANGED <<script, pc, phase, veza_url, veza_api_key, veza_con, app_created,
                   custom_permissions, nodes, resource_map, local_groups, memberships,
                   grants, accepted, calls, error_seen, outcome>>

ProcessUser ==
    /\ InLoop("dmi_app_csv", "users")
    /\ \E row \in CsvInput(UserRows) : UserStep(row)

\* DMI_APPL.py lines 77-87
ApplUser ==
    /\ InLoop("DMI_APPL", "users")
    /\ \E row \in ApplInput :
          /\ local_users' = Put(local_users, row.name,
                  [identities |-> IF row.identity # "" THEN {row.identity} ELSE {},
                   properties |-> {}, is_active |-> TRUE])
          /\ last_err' = NoErr
          /\ Advance(FALSE)
          /\ UNCHANGED <<script, pc, phase, veza_url, veza_api_key, veza_con, app_created,
                         custom_permissions, nodes, resource_map, users_data, local_groups,
                         memberships, grants, accepted, calls, error_seen, outcome>>

\* add_local_group / add_group
GroupStep(row, isCsv) ==
    /\ local_groups' = local_groups \cup {row.name}
    /\ last_err' = NoErr
    /\ Advance(isCsv)
    /\ UNCHANGED <<script, pc, phase, veza_url, veza_api_key, veza_con, app_created,
                   custom_permissions, nodes, resource_map, users_data, local_users,
                   memberships, grants, accepted, calls, error_seen, outcome>>

ProcessGroup ==
    /\ Running /\ pc = "loop" /\ script \in {"dmi_app_csv", "dmi_idp_csv"}
    /\ CurPhase = "groups"
    /\ \E row \in CsvInput(GroupRows) : GroupStep(row, TRUE)

ApplGroup ==
    /\ InLoop("DMI_APPL", "groups")
    /\ \E row \in ApplInput : GroupStep(row, FALSE)

\* Every group the row lists, registered or not.
ListedGroups(groups, registered) == {groups[i] : i \in 1..Len(groups)}

\* The groups of one users.csv row that pass `if group_name in custom_app.local_groups`.
KnownGroups(groups, registered) == {groups[i] : i \in {j \in 1..Len(groups) : groups[j] \in registered}}

\* Lines 150-155 of dmi_app_csv.py for one row of users_data.
MemberStep(user) ==
    /\ memberships' = memberships \cup
           {<<user.full_name, g>> : g \in KnownGroups(user.groups, local_groups)}
    /\ last_err' = NoErr
    /\ Advance(FALSE)
    /\ UNCHANGED <<script, pc, phase, veza_url, veza_api_key, veza_con, app_created,
                   custom_permissions, nodes, resource_map, users_data, local_users,
                   local_groups, grants, accepted, calls, error_seen, outcome>>

AssignGroups ==
    /\ InLoop("dmi_app_csv", "members")
    /\ idx < Len(users_data)
    /\ MemberStep(users_data[idx + 1])

\* DMI_APPL.py lines 95-97: add_group on the user, no check
ApplMember ==
    /\ InLoop("DMI_APPL", "members")
    /\ \E row \in ApplInput :
          /\ memberships' = memberships \cup {<<row.user, row.group>>}
          /\ last_err' = NoErr
          /\ Advance(FALSE)
          /\ UNCHANGED <<script, pc, phase, veza_url, veza_api_key, veza_con, app_created,
                         custom_permissions, nodes, resource_map, users_data, local_users,
                         local_groups, grants, accepted, calls, error_seen, outcome>>

\* ------------------------------------------------------------ entitlements

\* A lookup that falls back to the first row when no row matches.
FirstUserOrFirst(data, identity) ==
    LET hits == {i \in 1..Len(data) : data[i].name = identity}
    IN  IF hits = {} THEN (IF Len(data) > 0 THEN 1 ELSE 0)
        ELSE CHOOSE i \in hits : \A j \in hits : i <= j

\* next((u for u in users_data if u['name'] == identity), None): the position
\* of the first matching row, 0 for None
FirstUser(data, identity) ==
    LET hits == {i \in 1..Len(data) : data[i].name = identity}
    IN  IF hits = {} THEN 0 ELSE CHOOSE i \in hits : \A j \in hits : i <= j

\* The identity checks of lines 165-180: the entity the row names, or the
\* error the script prints for it.
ResolveEntity(row) ==
    IF row.identity_type = "local_user"
    THEN LET u == FirstUser(users_data, row.identity)
         IN  IF u = 0 \/ users_data[u].full_name \notin DOMAIN local_users
             THEN [ok |-> FALSE, err |-> Err("UserNotFound", row.identity)]
             ELSE [ok |-> TRUE, etype |-> "user", ename |-> users_data[u].full_name]
    ELSE IF row.identity_type = "local_group"
    THEN IF row.identity \notin local_groups
         THEN [ok |-> FALSE, err |-> Err("GroupNotFound", row.identity)]
         ELSE [ok |-> TRUE, etype |-> "group", ename |-> row.identity]
    ELSE [ok |-> FALSE, err |-> Err("InvalidIdentityType", row.identity)]

\* A lookup that never misses: an unknown name silently becomes the first node.
ResourceLookupDefaulting(m, resource_name) ==
    IF resource_name \in DOMAIN m THEN m[resource_name] ELSE 1

\* resource_map.get(resource_name)
ResourceLookup(m, resource_name) == MapGet(m, resource_name)

\* A grant that is always recorded application-wide, whatever scope was asked.
GrantApplicationWide(etype, ename, permission, resources, app) ==
    [etype |-> etype, ename |-> ename, permission |-> permission,
     resources |-> resources, apply_to_application |-> TRUE]

\* entity.add_permission(permission, resources=[...] | apply_to_application=True)
Grant(etype, ename, permission, resources, app) ==
    [etype |-> etype, ename |-> ename, permission |-> permission,
     resources |-> resources, apply_to_application |-> app]

\* A grant list that drops a grant it already holds.
AddPermissionOnce(gs, g) == IF \E i \in 1..Len(gs) : gs[i] = g THEN gs ELSE Append(gs, g)

AddPermission(gs, g) == Append(gs, g)

\* The row names a user some users.csv row declared (local_user) or a group
\* groups.csv declared (local_group).
IdentityRegistered(row) ==
    \/ /\ row.identity_type = "local_user"
       /\ \E i \in 1..Len(users_data) : users_data[i].name = row.identity
    \/ /\ row.identity_type = "local_group"
       /\ row.identity \in local_groups

\* The row's resource_name is empty or the name of a resource that was added.
ResourceKnown(row) ==
    row.resource_name = "" \/ \E i \in 1..Len(nodes) : nodes[i].name = row.resource_name

\* The rows that are not in error: `accepted` keeps them, in file order.
Acceptable(row) == IdentityRegistered(row) /\ ResourceKnown(row)

\* A rejection that also throws away the grants made so far.
SkipDroppingGrants(err) ==
    /\ last_err' = err
    /\ error_seen' = TRUE
    /\ grants' = <<>>

\* The row is printed as an error and skipped (`continue`).
Skip(err) ==
    /\ last_err' = err
    /\ error_seen' = TRUE
    /\ UNCHANGED grants

\* Lines 159-189 of dmi_app_csv.py for one row.
MappingStep(row) ==
    /\ LET e == ResolveEntity(row)
           r == ResourceLookup(resource_map, row.resource_name)
       IN  IF ~e.ok
           THEN Skip(e.err)
           ELSE IF row.resource_name # "" /\ r = 0
           THEN Skip(Err("ResourceNotFound", row.resource_name))
           ELSE /\ grants' = AddPermission(grants,
                        IF row.resource_name # ""
                        THEN Grant(e.etype, e.ename, row.permission, <<r>>, FALSE)
                        ELSE Grant(e.etype, e.ename, row.permission, <<>>, TRUE))
                /\ last_err' = NoErr
                /\ UNCHANGED error_seen
    /\ accepted' = IF Acceptable(row) THEN Append(accepted, row) ELSE accepted
    /\ Advance(TRUE)
    /\ UNCHANGED <<script, pc, phase, veza_url, veza_api_key, veza_con, app_created,
                   custom_permissions, nodes, resource_map, users_data, local_users,
                   local_groups, memberships, calls, outcome>>

ProcessMapping ==
    /\ InLoop("dmi_app_csv", "mappings")
    /\ \E row \in CsvInput(MappingRows) : MappingStep(row)

\* DMI_APPL.py lines 100-117: add_permission on the user, the resources held
\* in Python variables
ApplMapping ==
    /\ InLoop("DMI_APPL", "mappings")
    /\ \E row \in ApplInput :
          /\ grants' = AddPermission(grants,
                  Grant("user", row.user, row.permission, row.resources, FALSE))
          /\ last_err' = NoErr
          /\ Advance(FALSE)
          /\ UNCHANGED <<script, pc, phase, veza_url, veza_api_key, veza_con, app_created,
                         custom_permissions, nodes, resource_map, users_data, local_users,
                         local_groups, memberships, accepted, calls, error_seen, outcome>>

\* ------------------------------------------------------------ dmi_idp_csv.py

\* Lines 79-109 for one row.  Assigning `identities` is inside a try whose
\* except AttributeError calls sys.exit(1); whether the SDK object accepts
\* the assignment is not the script's to decide.
IdpUserStep(row) ==
    /\ users_data' = Append(users_data, row)
    /\ \/ /\ \E u \in UserOutcomes(row) :
                /\ local_users' = Put(local_users, row.full_name, u)
                /\ last_err' = IF u = NewUser(row) THEN NoErr
                               ELSE Err("PropertyWarning", row.full_name)
          /\ UNCHANGED <<pc, error_seen, outcome>>
       \/ /\ row.identity # ""
          /\ local_users' = Put(local_users, row.full_name,
                  [identities |-> {}, properties |-> {}, is_active |-> TRUE])
          /\ Abort("IdentitiesNotSettable", row.full_name)
    /\ Advance(TRUE)
    /\ UNCHANGED <<script, phase, veza_url, veza_api_key, veza_con, app_created,
                   custom_permissions, nodes, resource_map, local_groups, memberships,
                   grants, accepted, calls>>

ProcessIdpUser ==
    /\ InLoop("dmi_idp_csv", "users")
    /\ \E row \in CsvInput(IdpUserRows) : IdpUserStep(row)

\* next((u for u in users_data if u['identity'] == user_identity), None)
FirstIdpUser(data, identity) ==
    LET hits == {i \in 1..Len(data) : data[i].identity = identity}
    IN  IF hits = {} THEN 0 ELSE CHOOSE i \in hits : \A j \in hits : i <= j

\* Lines 125-137 for one row.
MembershipStep(row) ==
    /\ LET u == FirstIdpUser(users_data, row.user_identity)
       IN  IF u = 0 \/ users_data[u].full_name \notin DOMAIN local_users
           THEN /\ last_err' = Err("UserNotFound", row.user_identity)
                /\ error_seen' = TRUE
                /\ UNCHANGED memberships
           ELSE IF row.group_name \notin local_groups
           THEN /\ last_err' = Err("GroupNotFound", row.group_name)
                /\ error_seen' = TRUE
                /\ UNCHANGED memberships
           ELSE /\ memberships' = memberships \cup
                       {<<users_data[u].full_name, row.group_name>>}
                /\ last_err' = NoErr
                /\ UNCHANGED error_seen
    /\ Advance(TRUE)
    /\ UNCHANGED <<script, pc, phase, veza_url, veza_api_key, veza_con, app_created,
                   custom_permissions, nodes, resource_map, users_data, local_users,
                   local_groups, grants, accepted, calls, outcome>>

ProcessMembership ==
    /\ InLoop("dmi_idp_csv", "memberships")
    /\ \E row \in CsvInput(MembershipRows) : MembershipStep(row)

\* ----------------------------------------------------------- dmi_hris_csv.py

\* Line 13: HRISProvider(...) is the first statement of main(); nothing reads
\* the environment before it.
HrisConstruct ==
    /\ Running /\ pc = "start" /\ script = "dmi_hris_csv"
    /\ app_created' = TRUE
    /\ pc' = "hris_setup"
    /\ UNCHANGED <<script, phase, idx, rows, veza_url, veza_api_key, veza_con, graph,
                   log, calls, last_err, error_seen, outcome>>

\* Lines 18-30: OAAClient.__version__ is read from the SDK class (an
\* AttributeError if the class has no such attribute), then the property
\* definitions.
HrisSetup ==
    /\ Running /\ pc = "hris_setup"
    /\ \/ /\ EnterPhase(1)
          /\ UNCHANGED <<last_err, error_seen, outcome>>
       \/ /\ Abort("AttributeError", "__version__")
          /\ UNCHANGED <<phase, idx>>
    /\ UNCHANGED <<script, rows, veza_url, veza_api_key, veza_con, app_created, graph,
                   log, calls>>

\* Lines 36-70 for one row.
EmployeeStep(row) ==
    /\ local_users' = Put(local_users, row.name,
            [identities |-> {row.Email}, properties |-> {<<"full_name", row.name>>},
             is_active |-> (row.Status = "Active")])
    /\ IF row.Department # ""
       THEN /\ local_groups' = local_groups \cup {row.Department}
            /\ memberships' = memberships \cup {<<row.name, row.Department>>}
       ELSE UNCHANGED <<local_groups, memberships>>
    /\ last_err' = NoErr
    /\ Advance(TRUE)
    /\ UNCHANGED <<script, pc, phase, veza_url, veza_api_key, veza_con, app_created,
                   custom_permissions, nodes, resource_map, users_data, grants, accepted,
                   calls, error_seen, outcome>>

ProcessEmployee ==
    /\ InLoop("dmi_hris_csv", "employees")
    /\ \E row \in CsvInput(EmployeeRows) : EmployeeStep(row)

\* Line 78: `os` is never imported in this file, so os.getenv raises
\* NameError, which `except OAAClientError` does not catch.
HrisPush ==
    /\ Running /\ pc = "hris_push"
    /\ Abort("NameError", "os")
    /\ UNCHANGED <<script, phase, idx, rows, veza_url, veza_api_key, veza_con,
                   app_created, graph, log, calls>>

\* ------------------------------------------------------- end of a loop, push

\* A loop that may be left with records still unprocessed.
ExhaustedAnytime == TRUE

\* The loop has no record left: a file ends where it ends, the in-memory
\* loops end with their data.
Exhausted ==
    CASE script = "DMI_APPL" -> idx = Len(ApplData(CurPhase))
      [] script = "dmi_app_csv" /\ CurPhase = "members" -> idx = Len(users_data)
      [] OTHER -> TRUE

\* The position after the last loop of the script.
AfterLoops(s) == IF s = "dmi_hris_csv" THEN "hris_push" ELSE "provider"

EndLoop ==
    /\ Running /\ pc = "loop" /\ Exhausted
    /\ IF phase < Len(Phases(script))
       THEN EnterPhase(phase + 1)
       ELSE /\ pc' = AfterLoops(script)
            /\ UNCHANGED <<phase, idx>>
    /\ last_err' = NoErr
    /\ UNCHANGED <<script, rows, veza_url, veza_api_key, veza_con, app_created, graph,
                   log, calls, error_seen, outcome>>

\* A provider is created whatever the lookup returned.
CreateAlways(found) == "create"

\* `if provider: ... else: create_provider(...)`
AfterGetProvider(found) == IF found THEN "push" ELSE "create"

\* veza_con.get_provider(provider_name): a provider, or None; the call is
\* recorded with what it returned
GetProvider ==
    /\ Running /\ pc = "provider"
    /\ \E found \in BOOLEAN :
          /\ calls' = Append(calls, IF found THEN "get_provider:found"
                                             ELSE "get_provider:none")
          /\ pc' = AfterGetProvider(found)
    /\ UNCHANGED <<script, phase, idx, rows, veza_url, veza_api_key, veza_con,
                   app_created, graph, log, last_err, error_seen, outcome>>

\* veza_con.create_provider(provider_name, ...)
CreateProvider ==
    /\ Running /\ pc = "create"
    /\ calls' = Append(calls, "create_provider")
    /\ pc' = "push"
    /\ UNCHANGED <<script, phase, idx, rows, veza_url, veza_api_key, veza_con,
                   app_created, graph, log, last_err, error_seen, outcome>>

\* What the script does with an OAAClientError from push_application:
\* the CSV scripts print it and sys.exit(1); DMI_APPL.py prints it and returns.
ExitsOnPushError(s) == s # "DMI_APPL"

PushApplication ==
    /\ Running /\ pc = "push"
    /\ calls' = Append(calls, "push_application")
    /\ pc' = "done"
    /\ \/ /\ outcome' = "ok"
          /\ UNCHANGED <<last_err, error_seen>>
       \/ /\ last_err' = Err("PublishError", "")
          /\ error_seen' = TRUE
          /\ outcome' = IF ExitsOnPushError(script) THEN "failed" ELSE "ok"
    /\ UNCHANGED <<script, phase, idx, rows, veza_url, veza_api_key, veza_con,
                   app_created, graph, log>>

Next ==
    \/ CheckEnv
    \/ Construct
    \/ ReadCsv
    \/ ProcessPermission
    \/ ApplPermission
    \/ ProcessResource
    \/ ApplResource
    \/ ProcessUser
    \/ ApplUser
    \/ ProcessGroup
    \/ ApplGroup
    \/ AssignGroups
    \/ ApplMember
    \/ ProcessMapping
    \/ ApplMapping
    \/ ProcessIdpUser
    \/ ProcessMembership
    \/ HrisConstruct
    \/ HrisSetup
    \/ ProcessEmployee
    \/ HrisPush
    \/ EndLoop
    \/ GetProvider
    \/ CreateProvider
    \/ PushApplication

Spec == Init /\ [][Next]_vars

\* ================================================================ claims

NodeNames == {nodes[i].name : i \in 1..Len(nodes)}

\* C1: for every resources.csv row, in file order: a row whose non-empty
\* parent_name is the name of no resource added by an earlier row aborts the
\* run with the unresolved-parent error naming that parent, and adds nothing;
\* any other row adds one resource, a root when parent_name is empty and
\* otherwise a child of an earlier resource whose name is the declared
\* parent_name.
C1_ParentResolution ==
    [][\A row \in ResRows :
          (InLoop("dmi_app_csv", "resources") /\ ResourceStep(row)) =>
             IF row.parent_name # "" /\ row.parent_name \notin NodeNames
             THEN /\ outcome' = "failed"
                  /\ last_err' = Err("UnresolvedParent", row.parent_name)
                  /\ nodes' = nodes
                  /\ resource_map' = resource_map
             ELSE /\ outcome' = "running"
                  /\ Len(nodes') = Len(nodes) + 1
                  /\ SubSeq(nodes', 1, Len(nodes)) = nodes
                  /\ LET n == nodes'[Len(nodes')]
                     IN  /\ n.name = row.name
                         /\ n.resource_type = row.resource_type
                         /\ row.parent_name = "" => n.parent = 0
                         /\ row.parent_name # "" =>
                               /\ n.parent \in 1..Len(nodes)
                               /\ nodes[n.parent].name = row.parent_name]_vars

\* C1 witness: a child was attached under its declared parent, and a later
\* row naming a parent no earlier row added has aborted the run.
C1_Witness ==
    /\ script = "dmi_app_csv"
    /\ \E i \in 1..Len(nodes) : nodes[i].parent # 0
    /\ outcome = "failed"
    /\ last_err.kind = "UnresolvedParent"
    /\ last_err.ident \notin NodeNames

\* C2 (as claimed): a grant of a permission the permission registry does not
\* hold fails and leaves the identity's grant list as it was, so no grant in
\* any grant list names an unregistered permission.
C2_UnknownPermissionRejected ==
    \A i \in 1..Len(grants) : grants[i].permission \in DOMAIN custom_permissions

MappingOf(row) == InLoop("dmi_app_csv", "mappings") /\ MappingStep(row)

IdentityErrors == {"UserNotFound", "GroupNotFound", "InvalidIdentityType"}

MembersOf(user) == InLoop("dmi_app_csv", "members") /\ idx < Len(users_data) /\ MemberStep(user)

MembershipOf(row) == InLoop("dmi_idp_csv", "memberships") /\ MembershipStep(row)

RowsFor(etype, ename) ==
    {i \in 1..Len(accepted) :
        LET e == ResolveEntity(accepted[i]) IN e.ok /\ e.etype = etype /\ e.ename = ename}

GrantsFor(etype, ename) ==
    {i \in 1..Len(grants) : grants[i].etype = etype /\ grants[i].ename = ename}

RowErrors == {"UserNotFound", "GroupNotFound", "InvalidIdentityType", "ResourceNotFound"}

\* C7 (as claimed): a run whose last error was raised rather than reported
\* for a row (an aborted construction step, or a publish error raised by the
\* client) ends with a failing outcome; a run ends successfully only if no
\* such error occurred.
C7_FatalErrorFailsRun ==
    (pc = "done" /\ last_err.kind \notin (RowErrors \cup {"none", "PropertyWarning"}))
       => outcome = "failed"

\* C8 (as claimed): with the base URL or the API key absent, no application
\* or provider object is ever created, no client, no record is read and
\* nothing is registered.
C8_NoConstructionWithoutCredentials ==
    EnvMissing =>
       /\ ~app_created /\ ~veza_con
       /\ log = <<>> /\ rows = 0
       /\ custom_permissions = <<>> /\ nodes = <<>> /\ local_users = <<>>
       /\ local_groups = {} /\ memberships = {} /\ grants = <<>>

\* The build phase a loop belongs to: 1 permissions, 2 resources, 3 users,
\* groups and memberships, 4 entitlements.
Rank(p) ==
    CASE p = "permissions" -> 1
      [] p = "resources" -> 2
      [] p = "mappings" -> 4
      [] OTHER -> 3

Processed(p) == Cardinality({k \in 1..Len(log) : log[k].phase = p})

\* Position of the loop named p among the loops of the running script.
LoopIndex(p) == CHOOSE n \in 1..Len(Phases(script)) : Phases(script)[n] = p

\* C9: the records are processed phase by phase in the order permissions,
\* resources, users/groups/memberships, entitlements, and the provider and
\* push calls come after all of them; inside a loop the k-th record
\* processed is row k; when a record of a loop is processed, every loop
\* before it has processed all of its data (the hard-coded statements of
\* DMI_APPL.py, the users_data of the membership pass).
C9_PhaseOrder ==
    /\ \A i, j \in 1..Len(log) :
          i < j => /\ Rank(log[i].phase) <= Rank(log[j].phase)
                   /\ log[i].phase = log[j].phase =>
                         \A k \in i..j : log[k].phase = log[i].phase
    /\ \A i \in 1..Len(log) :
          /\ log[i].phase \in {Phases(script)[n] : n \in 1..Len(Phases(script))}
          /\ log[i].idx = Cardinality({k \in 1..i : log[k].phase = log[i].phase})
          /\ \A n \in 1..(LoopIndex(log[i].phase) - 1) :
                /\ script = "DMI_APPL" =>
                      Processed(Phases(script)[n]) = Len(ApplData(Phases(script)[n]))
                /\ script = "dmi_app_csv" /\ Phases(script)[n] = "members" =>
                      Processed("members") = Len(users_data)
    /\ calls # <<>> =>
          /\ pc \in {"create", "push", "done"}
          /\ script = "DMI_APPL" =>
                \A n \in 1..Len(Phases(script)) :
                   Processed(Phases(script)[n]) = Len(ApplData(Phases(script)[n]))

\* C9 witness: a finished dmi_app_csv.py run that processed records of four
\* loops, two of them in one loop, and then pushed.
C9_Witness ==
    /\ script = "dmi_app_csv" /\ pc = "done" /\ outcome = "ok"
    /\ Cardinality({log[i].phase : i \in 1..Len(log)}) >= 4
    /\ \E i \in 1..Len(log) : log[i].idx = 2
    /\ Len(calls) >= 2

RECURSIVE ReachesRoot(_, _)
\* Following parent links from node r ends at a root within `fuel` steps.
ReachesRoot(r, fuel) ==
    IF r = 0 THEN TRUE
    ELSE IF fuel = 0 \/ r \notin 1..Len(nodes) THEN FALSE
    ELSE ReachesRoot(nodes[r].parent, fuel - 1)

\* Node r is in the forest the document serializes: a root, or nested under
\* a chain of parents that ends at a root.
InForest(r) == r \in 1..Len(nodes) /\ ReachesRoot(r, Len(nodes))

\* C10: after a successful build, every resource in the scope of a grant and
\* every resource used as a parent is a node of the serialized forest; in
\* dmi_app_csv.py the node a resource-scoped grant references carries the
\* resource_name its mapping row gave, and the node is the registered one
\* (its name and type are among the rows' names and types).
C10_ReferencesInForest ==
    (pc = "done" /\ outcome = "ok") =>
       /\ \A i \in 1..Len(grants) :
             /\ \A k \in 1..Len(grants[i].resources) : InForest(grants[i].resources[k])
             /\ ~grants[i].apply_to_application => grants[i].resources # <<>>
             /\ script = "dmi_app_csv" /\ grants[i].resources # <<>> =>
                   /\ i <= Len(accepted)
                   /\ nodes[grants[i].resources[1]].name = accepted[i].resource_name
       /\ \A i \in 1..Len(nodes) :
             /\ InForest(i)
             /\ nodes[i].parent # 0 => InForest(nodes[i].parent) /\ nodes[i].parent < i

\* C10 witness: a successful dmi_app_csv.py run holding a grant scoped to a
\* resource that is a child of another resource.
C10_Witness ==
    /\ script = "dmi_app_csv" /\ pc = "done" /\ outcome = "ok"
    /\ \E i \in 1..Len(grants) :
          /\ grants[i].resources # <<>>
          /\ nodes[grants[i].resources[1]].parent # 0

\* C11 (as claimed): two resources that carry the same name under different
\* parents stay individually addressable: each of them is what the resource
\* map returns for some name, so a later child row or grant can name either.
C11_SameNameAddressable ==
    \A i, j \in 1..Len(nodes) :
       (script = "dmi_app_csv" /\ i # j /\ nodes[i].name = nodes[j].name
          /\ nodes[i].parent # nodes[j].parent)
       => /\ \E k \in DOMAIN resource_map : resource_map[k] = i
          /\ \E k \in DOMAIN resource_map : resource_map[k] = j

\* C13: in dmi_app_csv.py every accepted mapping row appends one grant; with
\* an empty resource_name the grant is application-wide and references no
\* resource; with a resource_name it is not application-wide and its scope
\* is exactly one resource, the one the resource map holds under that name
\* (the last one registered under it).
C13_ScopeFromResourceName ==
    [][\A row \in MappingRows :
         (MappingOf(row) /\ Acceptable(row)) =>
            /\ Len(grants') = Len(grants) + 1
            /\ LET g == grants'[Len(grants')]
               IN  IF row.resource_name = ""
                   THEN g.apply_to_application /\ g.resources = <<>>
                   ELSE /\ ~g.apply_to_application
                        /\ Len(g.resources) = 1
                        /\ g.resources[1] \in 1..Len(nodes)
                        /\ nodes[g.resources[1]].name = row.resource_name
                        /\ \A j \in 1..Len(nodes) :
                              nodes[j].name = row.resource_name => j <= g.resources[1]]_vars

\* C13 witness: dmi_app_csv.py holds an application-wide grant and a grant
\* scoped to one resource, from two accepted rows.
C13_Witness ==
    /\ script = "dmi_app_csv" /\ Len(accepted) >= 2
    /\ \E i, j \in 1..Len(grants) :
          /\ grants[i].apply_to_application /\ grants[i].resources = <<>>
          /\ ~grants[j].apply_to_application /\ Len(grants[j].resources) = 1

\* C14: in every state of every run no resource is its own ancestor: the
\* parent of a resource is a resource created by an earlier row, so the
\* parent links from any resource reach a root within as many steps as there
\* are resources; this includes rows that name their own name as parent.
C14_Acyclic ==
    \A i \in 1..Len(nodes) :
       /\ nodes[i].parent \in 0..(i - 1)
       /\ ReachesRoot(i, Len(nodes))

\* C14 witness: a resource was created under a parent of the same name (the
\* row named an earlier registered name as both its name and its parent).
C14_Witness ==
    /\ script = "dmi_app_csv"
    /\ \E i \in 1..Len(nodes) :
          /\ nodes[i].parent # 0
          /\ nodes[nodes[i].parent].name = nodes[i].name

\* C15: in dmi_app_csv.py a rejected mapping row (unknown user, unknown
\* group, other identity_type, unknown resource_name) changes no grant list,
\* no resource, no permission, no user and no group, and the loop goes on;
\* a valid row that comes after a rejected one is still granted.
C15_RejectedRowFrame ==
    [][\A row \in MappingRows :
         MappingOf(row) =>
            IF Acceptable(row)
            THEN error_seen =>
                   /\ Len(grants') = Len(grants) + 1
                   /\ SubSeq(grants', 1, Len(grants)) = grants
                   /\ grants'[Len(grants')].permission = row.permission
            ELSE /\ grants' = grants
                 /\ resource_map' = resource_map /\ nodes' = nodes
                 /\ custom_permissions' = custom_permissions
                 /\ local_users' = local_users /\ local_groups' = local_groups
                 /\ memberships' = memberships
                 /\ last_err'.kind \in RowErrors
                 /\ pc' = "loop" /\ outcome' = "running" /\ idx' = idx + 1]_vars

\* C15 witness: after a rejected mapping row, a later valid row was granted
\* in the same loop.
C15_Witness ==
    /\ InLoop("dmi_app_csv", "mappings")
    /\ error_seen /\ last_err = NoErr
    /\ idx >= 2 /\ Len(grants) >= 1 /\ Len(accepted) < idx

Pushes(cs) == Cardinality({i \in 1..Len(cs) : cs[i] = "push_application"})

\* C16: a client call (provider lookup, provider creation, push) is made
\* only in a run that is still going, after the last loop has processed all
\* of its records; no record is processed and nothing is registered once the
\* first client call was made; push_application is called at most once; a
\* run that failed for any reason but a publish error made no client call.
C16_PushOnceAfterConstruction ==
    [][/\ calls # <<>> => (log' = log /\ graph' = graph /\ rows' = rows)
       /\ calls' # calls =>
             /\ outcome = "running"
             /\ phase = Len(Phases(script))
             /\ script = "DMI_APPL" =>
                   \A n \in 1..Len(Phases(script)) :
                      Processed(Phases(script)[n]) = Len(ApplData(Phases(script)[n]))
             /\ script = "dmi_app_csv" => Processed("members") = Len(users_data)
             /\ Pushes(calls') <= 1
             /\ Pushes(calls) = 0
       /\ (outcome' = "failed" /\ last_err'.kind # "PublishError") => calls' = <<>>]_vars

\* C16 witness: dmi_idp_csv.py processed rows of its files, then pushed
\* once and ended.
C16_Witness ==
    /\ script = "dmi_idp_csv" /\ pc = "done"
    /\ Len(log) >= 3
    /\ Pushes(calls) = 1 /\ calls[Len(calls)] = "push_application"

\* C17: the client calls of a run are a prefix of get_provider (found),
\* push_application or of get_provider (none), create_provider,
\* push_application: a provider is created at most once, only after a
\* lookup that found none, and before the push; after a lookup that found a
\* provider none is created; the push is only made with a provider found or
\* created, and a run that finished its push made one of the two full
\* sequences.
C17_GetOrCreate ==
    /\ calls \in {<<>>,
                  <<"get_provider:found">>,
                  <<"get_provider:found", "push_application">>,
                  <<"get_provider:none">>,
                  <<"get_provider:none", "create_provider">>,
                  <<"get_provider:none", "create_provider", "push_application">>}
    /\ pc = "push" => calls \in {<<"get_provider:found">>,
                                  <<"get_provider:none", "create_provider">>}
    /\ pc = "create" => calls = <<"get_provider:none">>
    /\ (pc = "done" /\ calls # <<>>) => calls[Len(calls)] = "push_application"

\* C17 witness: a finished run whose lookup found no provider, which then
\* created one and pushed.
C17_Witness ==
    /\ pc = "done"
    /\ calls = <<"get_provider:none", "create_provider", "push_application">>

\* C12 (as claimed): no user is left half registered in a graph that is
\* pushed: every user of the pushed graph carries all the sub-steps (identity,
\* custom attributes, active flag) of a users row of its name.
C12_NoPartialEntity ==
    (script \in {"dmi_app_csv", "dmi_idp_csv"} /\ Pushes(calls) = 1) =>
       \A name \in DOMAIN local_users :
          \E i \in 1..Len(users_data) :
             /\ users_data[i].full_name = name
             /\ local_users[name] = NewUser(users_data[i])

====
